---- MODULE Spec2Model ----
(***************************************************************************)
(* A model of gwpy/io/ligolw.py: the ilwdchar_compat import-patching       *)
(* decorator, the read_ligolw and open_xmldoc compatibility retries, the   *)
(* is_ligolw signature test, and the table read/write helpers.             *)
(*                                                                         *)
(* The module holds one specification per group of operations:             *)
(*   Spec       the ilwdchar_compat wrapper, run by two threads            *)
(*   SpecRead   read_ligolw and its retry                                  *)
(*   SpecOpen   open_xmldoc and its retry                                  *)
(*   SpecIdent  is_ligolw on a file object                                 *)
(*   SpecWrite  write_tables / write_tables_to_document                    *)
(*   SpecTable  read_table without a table name                            *)
(* All of them share the process-wide variable builtins_import.            *)
(***************************************************************************)
EXTENDS Integers, Sequences, FiniteSets, TLC

VARIABLES
    builtins_import,   \* builtins.__import__: "real" or "compat"
    stack,             \* per thread, the frames of the wrapped calls in progress
    last_writer,       \* history: the thread that last assigned builtins.__import__
    rcall,             \* read_ligolw: the arguments of the top-level call
    rstack,            \* read_ligolw: the frames of the call and of its retries
    loads,             \* read_ligolw: how often the loader was invoked
    rresult,           \* read_ligolw: what reached the caller
    ocall,             \* open_xmldoc: the arguments of the top-level call
    ostack,            \* open_xmldoc: the frames of the call and the calls it makes
    oresult,           \* open_xmldoc: what reached the caller
    ident,             \* is_ligolw: the arguments, the file and the value returned
    wcall,             \* write_tables(_to_document): the arguments
    xmldoc,            \* write_tables(_to_document): the Document passed in
    disk,              \* write_tables: the file of the target
    wout,              \* write_tables(_to_document): how the call ended
    tcall,             \* read_table: the arguments
    tout               \* read_table: what reached the caller

importVars == <<stack, last_writer>>

readVars == <<rcall, rstack, loads, rresult>>

openVars == <<ocall, ostack, oresult>>

writeVars == <<wcall, xmldoc, disk, wout>>

tableVars == <<tcall, tout>>

vars == <<builtins_import, importVars, readVars, openVars, ident,
          writeVars, tableVars>>

----------------------------------------------------------------------------
(* Bounds *)

\* deepest nesting of wrapped calls in one thread
MaxDepth == 2

Threads == {"t1", "t2"}

\* the ilwdchar_compat keyword of a call: not given, True or False
Keywords == {"absent", "True", "False"}

----------------------------------------------------------------------------
(* The two import functions (ligolw.py:51-77) *)

\* a module name is the sequence of its dotted components
LigoLwName == <<"ligo", "lw", "ligolw">>

\* LIGO_LW_MODULE_REGEX.sub("glue.ligolw", name): a leading ligo.lw is replaced
RegexSub(name) ==
    IF Len(name) >= 2 /\ SubSeq(name, 1, 2) = <<"ligo", "lw">>
    THEN <<"glue", "ligolw">> \o SubSeq(name, 3, Len(name))
    ELSE name

\* _real_import(name): the module of that name
real_import(name) == name

\* _ligolw_compat_import(name)
ligolw_compat_import(name) == real_import(RegexSub(name))

\* the call builtins.__import__(name) an import statement makes
ImportModule(fn, name) ==
    IF fn = "compat" THEN ligolw_compat_import(name) ELSE real_import(name)

\* the library a module object belongs to
LibOf(mod) ==
    IF SubSeq(mod, 1, 2) = <<"glue", "ligolw">> THEN "glue.ligolw" ELSE "ligo.lw"

\* what "from ligo.lw... import ..." in a function body resolves to
BodyLib(fn) == LibOf(ImportModule(fn, LigoLwName))

\* the library a call in the given mode is meant to import from
LibFor(use_compat) == IF use_compat THEN "glue.ligolw" ELSE "ligo.lw"

----------------------------------------------------------------------------
(* ilwdchar_compat (ligolw.py:86-102) *)

\* kwargs.pop("ilwdchar_compat", any(map(_is_glue_ligolw_object, ...)))
\* kw is the keyword given ("absent" when none), glueArg whether some argument
\* is an object of glue.ligolw
UseCompat(kw, glueArg) == IF kw = "absent" THEN glueArg ELSE kw = "True"

\* an install that forgets the test of use_compat
WrappedInstallAlways(cur, use_compat) == "compat"

\* if use_compat: builtins.__import__ = _ligolw_compat_import
WrappedInstall(cur, use_compat) == IF use_compat THEN "compat" ELSE cur

\* a finally that leaves the import function as the body left it
WrappedFinallyLeaves(cur, use_compat, how) == cur

\* a finally that restores on a normal return only
WrappedFinallyOnReturn(cur, use_compat, how) ==
    IF how = "return" THEN "real" ELSE cur

\* finally: builtins.__import__ = _real_import  (how: "return" or "raise")
WrappedFinally(cur, use_compat, how) == "real"

Top(s) == s[Len(s)]

Pop(s) == SubSeq(s, 1, Len(s) - 1)

SetTop(s, f) == [s EXCEPT ![Len(s)] = f]

\* a wrapped function is called: at top level, or from the body of the call
\* in progress
Call(t, kw, glueArg) ==
    /\ Len(stack[t]) < MaxDepth
    /\ stack[t] # <<>> => Top(stack[t]).pc = "body"
    /\ LET new == [use_compat |-> UseCompat(kw, glueArg), pc |-> "start",
                   lib |-> "none", nested |-> FALSE]
           old == IF stack[t] = <<>> THEN <<>>
                  ELSE SetTop(stack[t], [Top(stack[t]) EXCEPT !.nested = TRUE])
       IN stack' = [stack EXCEPT ![t] = Append(old, new)]
    /\ UNCHANGED <<builtins_import, last_writer, readVars, openVars, ident,
                   writeVars, tableVars>>

\* wrapped, lines 96-98: the try is entered and the import function installed
Install(t) ==
    /\ stack[t] # <<>>
    /\ Top(stack[t]).pc = "start"
    /\ builtins_import' = WrappedInstall(builtins_import, Top(stack[t]).use_compat)
    /\ last_writer' = IF Top(stack[t]).use_compat THEN t ELSE last_writer
    /\ UNCHANGED <<readVars, openVars, ident,
                   writeVars, tableVars>>
    /\ stack' = [stack EXCEPT ![t] = SetTop(@, [Top(@) EXCEPT !.pc = "body"])]

\* the body runs an import statement of ligo.lw
BodyImport(t) ==
    /\ stack[t] # <<>>
    /\ Top(stack[t]).pc = "body"
    /\ stack' = [stack EXCEPT ![t] =
                    SetTop(@, [Top(@) EXCEPT !.lib = BodyLib(builtins_import)])]
    /\ UNCHANGED <<builtins_import, last_writer, readVars, openVars, ident,
                   writeVars, tableVars>>

\* the callee's exception reaches the caller's body
Propagate(s) ==
    IF s = <<>> THEN s ELSE SetTop(s, [Top(s) EXCEPT !.pc = "raised"])

\* the body returns: the finally clause runs and the call completes
Return(t) ==
    /\ stack[t] # <<>>
    /\ Top(stack[t]).pc = "body"
    /\ builtins_import' =
          WrappedFinally(builtins_import, Top(stack[t]).use_compat, "return")
    /\ last_writer' = t
    /\ stack' = [stack EXCEPT ![t] = Pop(@)]
    /\ UNCHANGED <<readVars, openVars, ident,
                   writeVars, tableVars>>

\* the body raises, or lets the callee's exception through: the finally clause
\* runs and the exception goes on to the caller
Raise(t) ==
    /\ stack[t] # <<>>
    /\ Top(stack[t]).pc \in {"body", "raised"}
    /\ builtins_import' =
          WrappedFinally(builtins_import, Top(stack[t]).use_compat, "raise")
    /\ last_writer' = t
    /\ stack' = [stack EXCEPT ![t] = Propagate(Pop(@))]
    /\ UNCHANGED <<readVars, openVars, ident,
                   writeVars, tableVars>>

\* the body handles the callee's exception and goes on
Catch(t) ==
    /\ stack[t] # <<>>
    /\ Top(stack[t]).pc = "raised"
    /\ stack' = [stack EXCEPT ![t] = SetTop(@, [Top(@) EXCEPT !.pc = "body"])]
    /\ UNCHANGED <<builtins_import, last_writer, readVars, openVars, ident,
                   writeVars, tableVars>>

\* no wrapped call in progress in any thread
ImportIdle ==
    /\ stack = [t \in Threads |-> <<>>]
    /\ last_writer = "none"

----------------------------------------------------------------------------
(* Exceptions and the legacy-schema patterns (ligolw.py:61-70) *)

Libs == {"ligo.lw", "glue.ligolw"}

\* the message of an ElementError, by the phrase it holds: <<what, which>>
compat_errors ==
    { <<"invalid Column", "process_id">>,
      <<"invalid Column", "coinc_event_id">>,
      <<"invalid Column", "coinc_def_id">>,
      <<"invalid Column", "event_id">>,
      <<"invalid type", "ilwd:char">> }

\* LIGO_LW_COMPAT_ERROR.search(str(exc)): the message holds one of the patterns
LIGO_LW_COMPAT_ERROR(msg) == msg \in compat_errors

\* the messages the loader is given to raise
Messages ==
    { <<"invalid Column", "process_id">>, <<"invalid type", "ilwd:char">>,
      <<"invalid Column", "snr">>, <<"invalid type", "int_4s">> }

NoMsg == <<"", "">>

\* no exception
NoExc == [cls |-> "none", msg |-> NoMsg, at |-> 0]

\* no document
NoDoc == [kind |-> "none", lib |-> "none", at |-> 0]

\* What loading a file does with the loader of one library: it gives the parsed
\* document, or raises ligo.lw's ElementError (LigolwElementError, line 39), an
\* OSError, or some other Exception (glue.ligolw's own ElementError is one).
LoadOutcomes ==
    {[cls |-> "ok", msg |-> NoMsg]}
    \cup [cls : {"LigolwElementError"}, msg : Messages]
    \cup [cls : {"OSError", "Exception"}, msg : {NoMsg}]

----------------------------------------------------------------------------
(* read_ligolw (ligolw.py:243-306) *)

\* Python's recursion limit, in read_ligolw calls
RecursionLimit == 3

\* the frame of a read_ligolw call entered through the wrapper: use_compat is
\* popped from the keywords, the import function installed, and the body's
\* imports of ligo.lw resolved
ReadFrame(cur, kw, glueArg) ==
    [use_compat |-> UseCompat(kw, glueArg),
     lib |-> BodyLib(WrappedInstall(cur, UseCompat(kw, glueArg))),
     pc |-> "load", exc |-> NoExc, val |-> NoDoc]

\* the top-level call enters the wrapper and the body up to the try
RL_Enter ==
    /\ rstack = <<>>
    /\ rresult.kind = "none"
    /\ loads = 0
    /\ builtins_import' = WrappedInstall(builtins_import,
                                         UseCompat(rcall.kw, rcall.glueArg))
    /\ rstack' = <<ReadFrame(builtins_import, rcall.kw, rcall.glueArg)>>
    /\ UNCHANGED <<rcall, loads, rresult, importVars, openVars, ident,
                   writeVars, tableVars>>

\* lines 278-291: load_url / ligolw_add of the library the body imported
AfterLoad(f, outcome, depth) ==
    IF outcome.cls = "ok"
    THEN [f EXCEPT !.pc = "return",
                   !.val = [kind |-> "parsed", lib |-> f.lib, at |-> depth]]
    ELSE [f EXCEPT !.pc = IF outcome.cls = "LigolwElementError"
                          THEN "except" ELSE "raise",
                   !.exc = [cls |-> outcome.cls, msg |-> outcome.msg,
                            at |-> depth]]

RL_Load ==
    /\ rstack # <<>>
    /\ Top(rstack).pc = "load"
    /\ loads' = loads + 1
    /\ rstack' = SetTop(rstack, AfterLoad(Top(rstack), rcall.load[Top(rstack).lib],
                                          Len(rstack)))
    /\ UNCHANGED <<rcall, rresult, builtins_import, importVars, openVars, ident,
                   writeVars, tableVars>>

\* lines 294-304: the except clause.  A matching message calls read_ligolw
\* again with ilwdchar_compat=True; at the recursion limit that call raises
\* RecursionError, which line 302 swallows, and line 304 raises the error held
RL_Except ==
    /\ rstack # <<>>
    /\ Top(rstack).pc = "except"
    /\ IF LIGO_LW_COMPAT_ERROR(Top(rstack).exc.msg)
       THEN IF Len(rstack) < RecursionLimit
            THEN /\ builtins_import' = WrappedInstall(builtins_import, TRUE)
                 /\ rstack' = Append(SetTop(rstack, [Top(rstack) EXCEPT !.pc = "retry"]),
                                     ReadFrame(builtins_import, "True", FALSE))
            ELSE /\ rstack' = SetTop(rstack, [Top(rstack) EXCEPT !.pc = "raise"])
                 /\ UNCHANGED builtins_import
       ELSE /\ rstack' = SetTop(rstack, [Top(rstack) EXCEPT !.pc = "raise"])
            /\ UNCHANGED builtins_import
    /\ UNCHANGED <<rcall, loads, rresult, importVars, openVars, ident,
                   writeVars, tableVars>>

\* the retry raised and the exception propagates instead of the one held
RetryFailedPropagates(parent, childExc) ==
    [parent EXCEPT !.pc = "raise", !.exc = childExc]

\* lines 302-304: "except Exception: pass", then "raise" of the error held
RetryFailed(parent, childExc) == [parent EXCEPT !.pc = "raise"]

\* lines 296-301: "return read_ligolw(...)"
RetryReturned(parent, childVal) == [parent EXCEPT !.pc = "return", !.val = childVal]

\* what a completing call hands to the frame that called it
Resume(parent, child) ==
    IF child.pc = "raise" THEN RetryFailed(parent, child.exc)
    ELSE RetryReturned(parent, child.val)

\* what a completing top-level call hands to its caller
Outcome(f) ==
    IF f.pc = "raise" THEN [kind |-> "raise", exc |-> f.exc, val |-> NoDoc]
    ELSE [kind |-> "return", exc |-> NoExc, val |-> f.val]

\* lines 305-306 and the wrapper's finally: the call completes
RL_Finish ==
    /\ rstack # <<>>
    /\ Top(rstack).pc \in {"return", "raise"}
    /\ builtins_import' = WrappedFinally(builtins_import, Top(rstack).use_compat,
                                         Top(rstack).pc)
    /\ IF Len(rstack) = 1
       THEN /\ rstack' = <<>>
            /\ rresult' = Outcome(Top(rstack))
       ELSE /\ rstack' = SetTop(Pop(rstack), Resume(Top(Pop(rstack)), Top(rstack)))
            /\ UNCHANGED rresult
    /\ UNCHANGED <<rcall, loads, importVars, openVars, ident,
                   writeVars, tableVars>>

ReadCalls ==
    [kw : Keywords, glueArg : BOOLEAN, load : [Libs -> LoadOutcomes]]

NoResult == [kind |-> "none", exc |-> NoExc, val |-> NoDoc]

\* no read_ligolw call
ReadIdle ==
    /\ rcall = [kw |-> "absent", glueArg |-> FALSE,
                load |-> [l \in Libs |-> [cls |-> "ok", msg |-> NoMsg]]]
    /\ rstack = <<>>
    /\ loads = 0
    /\ rresult = NoResult

----------------------------------------------------------------------------
(* open_xmldoc (ligolw.py:426-475) *)

\* the contenthandler keyword: not given, or a class of one of the libraries
Handlers == {"absent"} \cup Libs

\* the frame of an open_xmldoc call entered through the wrapper: fn is "path"
\* for a file name and "file" for an open file, ch the contenthandler keyword
\* (the only argument that can be an object of glue.ligolw), hasName whether
\* the open file has a name.  Lines 445-449: the imports are resolved and the
\* contenthandler defaults to the class of the library imported.
OpenFrame(cur, fn, kw, ch, hasName) ==
    LET use_compat == UseCompat(kw, ch = "glue.ligolw")
        lib == BodyLib(WrappedInstall(cur, use_compat))
    IN [fn |-> fn, use_compat |-> use_compat, lib |-> lib,
        ch |-> IF ch = "absent" THEN lib ELSE ch, hasName |-> hasName,
        pc |-> IF fn = "path" THEN "open" ELSE "load",
        exc |-> NoExc, val |-> NoDoc]

\* the top-level call enters the wrapper and the body
OX_Enter ==
    /\ ostack = <<>>
    /\ oresult.kind = "none"
    /\ builtins_import' =
          WrappedInstall(builtins_import,
                         UseCompat(ocall.kw, ocall.ch = "glue.ligolw"))
    /\ ostack' = <<OpenFrame(builtins_import, ocall.fn, ocall.kw, ocall.ch,
                             ocall.file.hasName)>>
    /\ UNCHANGED <<ocall, oresult, importVars, readVars, ident,
                   writeVars, tableVars>>

\* lines 456-458: open() raised OSError: "return Document()"
OpenFailed(f, depth) ==
    [f EXCEPT !.pc = "return",
              !.val = [kind |-> "empty", lib |-> f.lib, at |-> depth]]

\* lines 452-455: a file name is opened and open_xmldoc called on the open
\* file, with the keywords of this call (ilwdchar_compat is not among them)
OX_Open ==
    /\ ostack # <<>>
    /\ Top(ostack).fn = "path"
    /\ Top(ostack).pc = "open"
    /\ IF ~ocall.file.openable
       THEN /\ ostack' = SetTop(ostack, OpenFailed(Top(ostack), Len(ostack)))
            /\ UNCHANGED builtins_import
       ELSE IF Len(ostack) < RecursionLimit
       THEN /\ builtins_import' =
                  WrappedInstall(builtins_import,
                                 UseCompat("absent", Top(ostack).ch = "glue.ligolw"))
            /\ ostack' = Append(SetTop(ostack, [Top(ostack) EXCEPT !.pc = "with"]),
                                OpenFrame(builtins_import, "file", "absent",
                                          Top(ostack).ch, TRUE))
       ELSE /\ ostack' = SetTop(ostack,
                   [Top(ostack) EXCEPT !.pc = "raise",
                       !.exc = [cls |-> "Exception", msg |-> NoMsg,
                                at |-> Len(ostack)]])
            /\ UNCHANGED builtins_import
    /\ UNCHANGED <<ocall, oresult, importVars, readVars, ident,
                   writeVars, tableVars>>

\* lines 460-462 and 473-475: load_fileobj of the library the body imported
OX_Load ==
    /\ ostack # <<>>
    /\ Top(ostack).fn = "file"
    /\ Top(ostack).pc = "load"
    /\ ostack' = SetTop(ostack, AfterLoad(Top(ostack),
                                          ocall.file.load[Top(ostack).lib],
                                          Len(ostack)))
    /\ UNCHANGED <<ocall, oresult, builtins_import, importVars, readVars, ident,
                   writeVars, tableVars>>

\* lines 462-471: the except clause.  A matching message reopens the file by
\* fobj.name with ilwdchar_compat=True; a file without a name (AttributeError)
\* and the recursion limit (RecursionError) end in line 469
OX_Except ==
    /\ ostack # <<>>
    /\ Top(ostack).pc = "except"
    /\ IF /\ LIGO_LW_COMPAT_ERROR(Top(ostack).exc.msg)
          /\ Top(ostack).hasName
          /\ Len(ostack) < RecursionLimit
       THEN /\ builtins_import' = WrappedInstall(builtins_import, TRUE)
            /\ ostack' = Append(SetTop(ostack, [Top(ostack) EXCEPT !.pc = "retry"]),
                                OpenFrame(builtins_import, "path", "True",
                                          Top(ostack).ch, TRUE))
       ELSE /\ ostack' = SetTop(ostack, [Top(ostack) EXCEPT !.pc = "raise"])
            /\ UNCHANGED builtins_import
    /\ UNCHANGED <<ocall, oresult, importVars, readVars, ident,
                   writeVars, tableVars>>

\* an except clause that lets the callee's OSError through
WithFailedPropagates(parent, childExc, depth) ==
    [parent EXCEPT !.pc = "raise", !.exc = childExc]

\* lines 456-458: "except (OSError, IOError): return Document()" around the
\* call on the open file; any other exception leaves the call
WithFailed(parent, childExc, depth) ==
    IF childExc.cls = "OSError" THEN OpenFailed(parent, depth)
    ELSE [parent EXCEPT !.pc = "raise", !.exc = childExc]

\* lines 469-471: "except Exception: pass", then "raise" of the error held
OpenRetryFailed(parent, childExc) == [parent EXCEPT !.pc = "raise"]

\* lines 455 and 468: "return open_xmldoc(...)"
OpenReturned(parent, childVal) ==
    [parent EXCEPT !.pc = "return", !.val = childVal]

\* what a completing call hands to the frame that called it
OpenResume(parent, child, depth) ==
    IF child.pc = "return" THEN OpenReturned(parent, child.val)
    ELSE IF parent.pc = "with" THEN WithFailed(parent, child.exc, depth)
    ELSE OpenRetryFailed(parent, child.exc)

\* the wrapper's finally: the call completes
OX_Finish ==
    /\ ostack # <<>>
    /\ Top(ostack).pc \in {"return", "raise"}
    /\ builtins_import' = WrappedFinally(builtins_import, Top(ostack).use_compat,
                                         Top(ostack).pc)
    /\ IF Len(ostack) = 1
       THEN /\ ostack' = <<>>
            /\ oresult' = Outcome(Top(ostack))
       ELSE /\ ostack' = SetTop(Pop(ostack),
                                OpenResume(Top(Pop(ostack)), Top(ostack),
                                           Len(ostack) - 1))
            /\ UNCHANGED oresult
    /\ UNCHANGED <<ocall, importVars, readVars, ident,
                   writeVars, tableVars>>

\* a file: whether open() of its name succeeds, whether the open file object
\* has a name, and what loading it does with each library
Files == [openable : BOOLEAN, hasName : BOOLEAN, load : [Libs -> LoadOutcomes]]

OpenCalls == [fn : {"path", "file"}, kw : Keywords, ch : Handlers, file : Files]

\* no open_xmldoc call
OpenIdle ==
    /\ ocall = [fn |-> "path", kw |-> "absent", ch |-> "absent",
                file |-> [openable |-> FALSE, hasName |-> FALSE,
                          load |-> [l \in Libs |-> [cls |-> "ok", msg |-> NoMsg]]]]
    /\ ostack = <<>>
    /\ oresult = NoResult

----------------------------------------------------------------------------
(* is_ligolw (ligolw.py:54-57, 731-758) *)

\* most lines a file of the model holds
MaxLines == 2

\* a string or a bytes object: its type and its characters
Bytes(chars) == [type |-> "bytes", chars |-> chars]

XML_SIGNATURE == Bytes(<<"<", "?", "x", "m", "l">>)

LIGOLW_SIGNATURE == Bytes(<<"<", "!", "d", "o", "c", "t", "y", "p", "e", " ", "l", "i", "g", "o", "_", "l", "w">>)

LIGOLW_ELEMENT == Bytes(<<"<", "l", "i", "g", "o", "_", "l", "w", ">">>)

\* bytes.decode('utf-8') of ASCII bytes: a str of the same characters
Decode(b) == [type |-> "str", chars |-> b.chars]

LowerOf ==
    "A" :> "a" @@ "B" :> "b" @@ "C" :> "c" @@ "D" :> "d" @@ "E" :> "e" @@ "F" :> "f" @@
    "G" :> "g" @@ "H" :> "h" @@ "I" :> "i" @@ "J" :> "j" @@ "K" :> "k" @@ "L" :> "l" @@
    "M" :> "m" @@ "N" :> "n" @@ "O" :> "o" @@ "P" :> "p" @@ "Q" :> "q" @@ "R" :> "r" @@
    "S" :> "s" @@ "T" :> "t" @@ "U" :> "u" @@ "V" :> "v" @@ "W" :> "w" @@ "X" :> "x" @@
    "Y" :> "y" @@ "Z" :> "z"

\* str.lower() / bytes.lower()
Lower(x) ==
    [x EXCEPT !.chars = [i \in 1..Len(x.chars) |->
        IF x.chars[i] \in DOMAIN LowerOf THEN LowerOf[x.chars[i]] ELSE x.chars[i]]]

\* x.startswith(prefix) raises TypeError for a prefix of the other type
StartsWithRaises(x, prefix) == x.type # prefix.type

\* x.startswith(prefix)
StartsWith(x, prefix) ==
    /\ Len(x.chars) >= Len(prefix.chars)
    /\ SubSeq(x.chars, 1, Len(prefix.chars)) = prefix.chars

\* the end of the line that starts after pos: its newline, or the end of file
LineEnd(content, pos) ==
    IF \E i \in (pos + 1)..Len(content) : content[i] = "\n"
    THEN CHOOSE i \in (pos + 1)..Len(content) :
            /\ content[i] = "\n"
            /\ \A j \in (pos + 1)..(i - 1) : content[j] # "\n"
    ELSE Len(content)

\* fileobj.readline() at pos: the line, of the file's type, and the new position
ReadLine(f, pos) ==
    [line |-> [type |-> IF f.mode = "rb" THEN "bytes" ELSE "str",
               chars |-> SubSeq(f.content, pos + 1, LineEnd(f.content, pos))],
     pos |-> LineEnd(f.content, pos)]

\* a call that reads on from where the file stands
SeekStartSkipped(loc) == loc

\* line 737: fileobj.seek(0)
SeekStart(loc) == 0

\* lines 742-753: the test of the two lines, with the signatures as bytes and,
\* on TypeError, as str
SignatureTest(line1, line2) ==
    IF StartsWithRaises(line1, XML_SIGNATURE)
    THEN /\ StartsWith(line1, Decode(XML_SIGNATURE))
         /\ \/ StartsWith(line2, Decode(LIGOLW_SIGNATURE))
            \/ StartsWith(line2, Decode(LIGOLW_ELEMENT))
    ELSE /\ StartsWith(line1, XML_SIGNATURE)
         /\ \/ StartsWith(line2, LIGOLW_SIGNATURE)
            \/ StartsWith(line2, LIGOLW_ELEMENT)

\* lines 735-755 on a file object: what is returned and where the file stands
IsLigolwFile(f) ==
    LET loc == f.pos
        r1 == ReadLine(f, SeekStart(loc))
        r2 == ReadLine(f, r1.pos)
    IN [verdict |-> SignatureTest(Lower(r1.line), Lower(r2.line)),
        pos |-> loc]

\* lines 757-758, without a file object: the first extra argument is an
\* Element of one of the libraries
IsLigolwObject(arg) == arg = "element"

\* is_ligolw(origin, filepath, fileobj, *args)
Identify ==
    /\ ident.verdict = "none"
    /\ IF ident.fileobj
       THEN /\ ident' = [ident EXCEPT
                   !.verdict = IF IsLigolwFile(ident.file).verdict
                               THEN "True" ELSE "False",
                   !.file.pos = IsLigolwFile(ident.file).pos]
       ELSE /\ ident' = [ident EXCEPT
                   !.verdict = IF IsLigolwObject(ident.arg)
                               THEN "True" ELSE "False"]
    /\ UNCHANGED <<builtins_import, importVars, readVars, openVars,
                   writeVars, tableVars>>

\* the lines the files of the model are made of
Lines ==
    { <<"<", "?", "x", "m", "l", " ", "v">>,
      <<"<", "?", "X", "M", "L">>,
      <<"<", "!", "D", "O", "C", "T", "Y", "P", "E", " ", "L", "I", "G", "O", "_", "L", "W", " ", "S">>,
      <<"<", "L", "I", "G", "O", "_", "L", "W", ">">>,
      <<"<", "l", "i", "g", "o", "_", "l", "w">>,
      <<>> }

\* the lines joined, each ended by a newline, the last one only if terminated
RECURSIVE Join(_, _)
Join(ls, terminated) ==
    IF ls = <<>> THEN <<>>
    ELSE IF Len(ls) = 1 THEN ls[1] \o (IF terminated THEN <<"\n">> ELSE <<>>)
    ELSE ls[1] \o <<"\n">> \o Join(Tail(ls), terminated)

Contents ==
    { Join(ls, t) : ls \in UNION {[1..n -> Lines] : n \in 0..MaxLines},
                    t \in BOOLEAN }

\* the calls: on a file object, binary or text, standing anywhere in the
\* file, or on no file object and one extra argument
IdentCalls ==
    UNION { { [fileobj |-> TRUE,
               file |-> [mode |-> m, content |-> c, pos |-> q],
               arg |-> "none", verdict |-> "none"] :
                  m \in {"rb", "r"}, q \in 0..Len(c) } : c \in Contents }
    \cup
    { [fileobj |-> FALSE, file |-> [mode |-> "rb", content |-> <<>>, pos |-> 0],
       arg |-> a, verdict |-> "none"] : a \in {"none", "element", "other"} }

\* no is_ligolw call
IdentIdle ==
    ident = [fileobj |-> FALSE,
             file |-> [mode |-> "rb", content |-> <<>>, pos |-> 0],
             arg |-> "none", verdict |-> "none"]

----------------------------------------------------------------------------
(* Documents: a Document holds LIGO_LW elements, a LIGO_LW element holds   *)
(* tables, a table has a name and rows.  Nested LIGO_LW elements are not   *)
(* modelled.                                                               *)

\* the most tables a document or a list of tables holds
MaxTables == 2

\* the most LIGO_LW elements a document holds
MaxElements == 2

\* lsctables.TableByName: the table names that have a class
TableByName == {"process", "segment"}

\* the names of the tables of the model; "custom" has no class
TableNames == TableByName \cup {"custom"}

Table(name, rows) == [name |-> name, rows |-> rows]

NoTable == Table("", <<>>)

\* Document(): no LIGO_LW element
EmptyDocument == <<>>

SeqsUpTo(S, n) == UNION { [1..k -> S] : k \in 0..n }

\* where the tables of a document are: <<element, child>>
Locations(doc) ==
    UNION { { <<i, j>> : j \in DOMAIN doc[i] } : i \in DOMAIN doc }

\* the tables a document of the model holds before a call have one row, 0
Documents ==
    { d \in SeqsUpTo(SeqsUpTo({ Table(n, <<0>>) : n \in TableNames },
                              MaxTables), MaxElements) :
        Cardinality(Locations(d)) <= MaxTables }

\* the k-th table of a list of tables to write has one row, k
TableLists ==
    { [k \in DOMAIN ns |-> Table(ns[k], <<k>>)] :
        ns \in SeqsUpTo(TableNames, MaxTables) }

\* get_ligolw_element: the first LIGO_LW element, 0 for its ValueError
get_ligolw_element(doc) == IF doc = EmptyDocument THEN 0 ELSE 1

\* the tables of one name anywhere in the document
getTablesByName(doc, name) ==
    { loc \in Locations(doc) : doc[loc[1]][loc[2]].name = name }

\* Table.get_table raises ValueError unless the document holds exactly one
get_table_raises(doc, name) == Cardinality(getTablesByName(doc, name)) # 1

get_table(doc, name) == CHOOSE loc \in getTablesByName(doc, name) : TRUE

----------------------------------------------------------------------------
(* write_tables_to_document and write_tables *)

appendChild(doc, llw, table) == [doc EXCEPT ![llw] = Append(@, table)]

removeChild(doc, llw, j) ==
    [doc EXCEPT ![llw] = SubSeq(@, 1, j - 1) \o SubSeq(@, j + 1, Len(@))]

\* one turn of the loop over the tables
WriteTable(doc, llw, table, overwrite) ==
    IF table.name \notin TableByName
    THEN [doc |-> doc, err |-> "KeyError"]
    ELSE IF get_table_raises(doc, table.name)
    THEN [doc |-> appendChild(doc, llw, table), err |-> "none"]
    ELSE LET old == get_table(doc, table.name) IN
         IF overwrite
         THEN IF old[1] # llw
              THEN \* removeChild: the old table is not a child of llw
                   [doc |-> doc, err |-> "ValueError"]
              ELSE [doc |-> appendChild(removeChild(doc, llw, old[2]),
                                        llw, table),
                    err |-> "none"]
         ELSE [doc |-> [doc EXCEPT ![old[1]][old[2]].rows = @ \o table.rows],
               err |-> "none"]

RECURSIVE WriteLoop(_, _, _, _, _)
WriteLoop(doc, llw, tables, k, overwrite) ==
    IF k > Len(tables)
    THEN [doc |-> doc, err |-> "none"]
    ELSE LET r == WriteTable(doc, llw, tables[k], overwrite) IN
         IF r.err # "none" THEN r
         ELSE WriteLoop(r.doc, llw, tables, k + 1, overwrite)

\* the document is changed in place: what an exception leaves is in doc
write_tables_to_document(doc, tables, overwrite) ==
    LET found == get_ligolw_element(doc)
        withllw == IF found = 0 THEN Append(doc, <<>>) ELSE doc
    IN  WriteLoop(withllw, 1, tables, 1, overwrite)

Targets == {"document", "path", "file"}

\* which branch of write_tables provides the document
WhichDocumentExistsFirst(target, append, overwrite, exists) ==
    IF target = "document" THEN "target"
    ELSE IF ~overwrite /\ target = "path" /\ exists THEN "exists"
    ELSE IF append THEN "open_xmldoc"
    ELSE "new"

WhichDocument(target, append, overwrite, exists) ==
    IF target = "document" THEN "target"
    ELSE IF append THEN "open_xmldoc"
    ELSE IF ~overwrite /\ target = "path" /\ exists THEN "exists"
    ELSE "new"

\* open_xmldoc as write_tables uses it: the parsed file, an empty Document
\* for a path that cannot be opened, or the error of the parser
OpenForAppend(target, file) ==
    IF target = "path" /\ ~file.exists
    THEN [doc |-> EmptyDocument, err |-> "none"]
    ELSE IF file.valid THEN [doc |-> file.doc, err |-> "none"]
    ELSE [doc |-> EmptyDocument, err |-> "LoadError"]

NoFile == [exists |-> FALSE, valid |-> TRUE, doc |-> EmptyDocument]

\* nothing written yet
NotWritten == [done |-> FALSE, err |-> "none", merges |-> 0, writes |-> 0]

\* write_tables_to_document(xmldoc, tables, overwrite)
WTD_Call ==
    /\ wcall.op = "write_tables_to_document"
    /\ ~wout.done
    /\ LET r == write_tables_to_document(xmldoc, wcall.tables,
                                         wcall.overwrite)
       IN  /\ xmldoc' = r.doc
           /\ wout' = [done |-> TRUE, err |-> r.err, merges |-> 1,
                       writes |-> 0]
    /\ UNCHANGED <<wcall, disk, tableVars>>
    /\ UNCHANGED <<builtins_import, importVars, readVars, openVars, ident>>

\* write_tables(target, tables, append, overwrite)
WT_Call ==
    /\ wcall.op = "write_tables"
    /\ ~wout.done
    /\ LET branch == WhichDocument(wcall.target, wcall.append,
                                   wcall.overwrite, disk.exists)
           opened == OpenForAppend(wcall.target, disk)
           start  == IF branch = "target" THEN xmldoc
                     ELSE IF branch = "open_xmldoc" THEN opened.doc
                     ELSE EmptyDocument
           r      == write_tables_to_document(start, wcall.tables,
                                              wcall.overwrite)
       IN  IF branch = "exists"
           THEN /\ wout' = [done |-> TRUE, err |-> "FileExists",
                            merges |-> 0, writes |-> 0]
                /\ UNCHANGED <<xmldoc, disk>>
           ELSE IF branch = "open_xmldoc" /\ opened.err # "none"
           THEN /\ wout' = [done |-> TRUE, err |-> opened.err,
                            merges |-> 0, writes |-> 0]
                /\ UNCHANGED <<xmldoc, disk>>
           ELSE /\ xmldoc' = IF branch = "target" THEN r.doc ELSE xmldoc
                /\ IF r.err # "none"
                   THEN /\ wout' = [done |-> TRUE, err |-> r.err,
                                    merges |-> 1, writes |-> 0]
                        /\ UNCHANGED disk
                   ELSE /\ wout' = [done |-> TRUE, err |-> "none",
                                    merges |-> 1, writes |-> 1]
                        \* a Document target is written to the file named
                        \* str(target), which is not the file of the model
                        /\ disk' = IF wcall.target = "document" THEN disk
                                   ELSE [exists |-> TRUE, valid |-> TRUE,
                                         doc |-> r.doc]
    /\ UNCHANGED <<wcall, tableVars>>
    /\ UNCHANGED <<builtins_import, importVars, readVars, openVars, ident>>

\* the files a target may name
TargetFiles(target) ==
    (IF target = "path" THEN {NoFile} ELSE {}) \cup
    { [exists |-> TRUE, valid |-> v, doc |-> IF v THEN d ELSE EmptyDocument] :
        v \in BOOLEAN, d \in Documents }

\* before a call of write_tables_to_document
WTD_Start ==
    \E ts \in TableLists, ow \in BOOLEAN, d \in Documents :
        /\ wcall = [op |-> "write_tables_to_document", target |-> "document",
                    tables |-> ts, append |-> FALSE, overwrite |-> ow,
                    before |-> d]
        /\ xmldoc = d
        /\ disk = NoFile

\* before a call of write_tables: the target is a Document, or a path or an
\* open file (which exists)
WT_Start ==
    \E tg \in Targets, ts \in TableLists, ap \in BOOLEAN, ow \in BOOLEAN :
        \E d \in IF tg = "document" THEN Documents ELSE {EmptyDocument} :
            \E f \in IF tg = "document" THEN {NoFile} ELSE TargetFiles(tg) :
                /\ wcall = [op |-> "write_tables", target |-> tg,
                            tables |-> ts, append |-> ap, overwrite |-> ow,
                            before |-> d]
                /\ xmldoc = d
                /\ disk = f

\* no write call
WriteIdle ==
    /\ wcall = [op |-> "none", target |-> "document", tables |-> <<>>,
                append |-> FALSE, overwrite |-> FALSE,
                before |-> EmptyDocument]
    /\ xmldoc = EmptyDocument
    /\ disk = NoFile
    /\ wout = NotWritten

----------------------------------------------------------------------------
(* read_table *)

\* list_tables: the names of the tables under the first LIGO_LW element
list_tables(doc) == [j \in DOMAIN doc[1] |-> doc[1][j].name]

\* the test that sends read_table to its "Multiple tables" error
MultipleTablesNever(tables) == FALSE

MultipleTables(tables) == Len(tables) > 1

Returned(table) ==
    [err |-> "none", msg |-> "", named |-> <<>>, table |-> table]

Raised(err, msg, named) ==
    [err |-> err, msg |-> msg, named |-> named, table |-> NoTable]

\* tableclass.get_table(xmldoc), the last statement of read_table
ExtractTable(doc, name) ==
    IF get_table_raises(doc, name)
    THEN Raised("ValueError", "exactly one", <<>>)
    ELSE LET loc == get_table(doc, name) IN Returned(doc[loc[1]][loc[2]])

\* read_table(source, tablename): what reaches the caller
read_table(c) ==
    IF c.tablename # "none" /\ c.tablename \notin TableByName
    THEN Raised("KeyError", c.tablename, <<>>)
    ELSE IF c.source = "file" /\ ~c.readable
    THEN Raised("ReadError", "", <<>>)
    ELSE IF c.tablename # "none"
    THEN ExtractTable(c.doc, c.tablename)
    ELSE IF get_ligolw_element(c.doc) = 0
    THEN Raised("ValueError", "Cannot find LIGO_LW element", <<>>)
    ELSE LET tables == list_tables(c.doc) IN
         IF tables = <<>>
         THEN Raised("ValueError", "No tables found", <<>>)
         ELSE IF MultipleTables(tables)
         THEN Raised("ValueError", "Multiple tables found", tables)
         ELSE IF tables[1] \notin TableByName
         THEN Raised("KeyError", tables[1], <<>>)
         ELSE ExtractTable(c.doc, tables[1])

NotRead == [done |-> FALSE, result |-> Raised("none", "", <<>>)]

RT_Call ==
    /\ tcall.op = "read_table"
    /\ ~tout.done
    /\ tout' = [done |-> TRUE, result |-> read_table(tcall)]
    /\ UNCHANGED <<tcall, writeVars>>
    /\ UNCHANGED <<builtins_import, importVars, readVars, openVars, ident>>

\* a Document, or a file and the document it holds if it can be read
TableCalls ==
    { [op |-> "read_table", source |-> "document", readable |-> TRUE,
       doc |-> d, tablename |-> n] :
        d \in Documents, n \in {"none"} \cup TableNames }
    \cup
    { [op |-> "read_table", source |-> "file", readable |-> r,
       doc |-> IF r THEN d ELSE EmptyDocument, tablename |-> n] :
        r \in BOOLEAN, d \in Documents, n \in {"none"} \cup TableNames }

\* no read_table call
TableIdle ==
    /\ tcall = [op |-> "none", source |-> "document", readable |-> TRUE,
                doc |-> EmptyDocument, tablename |-> "none"]
    /\ tout = NotRead

----------------------------------------------------------------------------
(* Specifications *)

\* the wrapper, called by two threads
Init ==
    /\ builtins_import = "real"
    /\ ImportIdle
    /\ ReadIdle
    /\ OpenIdle
    /\ IdentIdle
    /\ WriteIdle
    /\ TableIdle

Next ==
    \E t \in Threads :
        \/ \E kw \in Keywords, g \in BOOLEAN : Call(t, kw, g)
        \/ Install(t)
        \/ BodyImport(t)
        \/ Return(t)
        \/ Raise(t)
        \/ Catch(t)

Spec == Init /\ [][Next]_vars

\* one top-level read_ligolw call
InitRead ==
    /\ builtins_import = "real"
    /\ ImportIdle
    /\ OpenIdle
    /\ IdentIdle
    /\ WriteIdle
    /\ TableIdle
    /\ rcall \in ReadCalls
    /\ rstack = <<>>
    /\ loads = 0
    /\ rresult = NoResult

NextRead == RL_Enter \/ RL_Load \/ RL_Except \/ RL_Finish

SpecRead == InitRead /\ [][NextRead]_vars

\* one top-level open_xmldoc call
InitOpen ==
    /\ builtins_import = "real"
    /\ ImportIdle
    /\ ReadIdle
    /\ IdentIdle
    /\ WriteIdle
    /\ TableIdle
    /\ ocall \in OpenCalls
    /\ ostack = <<>>
    /\ oresult = NoResult

NextOpen == OX_Enter \/ OX_Open \/ OX_Load \/ OX_Except \/ OX_Finish

SpecOpen == InitOpen /\ [][NextOpen]_vars

\* one is_ligolw call
InitIdent ==
    /\ builtins_import = "real"
    /\ ImportIdle
    /\ ReadIdle
    /\ OpenIdle
    /\ WriteIdle
    /\ TableIdle
    /\ ident \in IdentCalls

NextIdent == Identify

SpecIdent == InitIdent /\ [][NextIdent]_vars

\* one write_tables_to_document or write_tables call
InitWrite ==
    /\ builtins_import = "real"
    /\ ImportIdle
    /\ ReadIdle
    /\ OpenIdle
    /\ IdentIdle
    /\ TableIdle
    /\ (WTD_Start \/ WT_Start)
    /\ wout = NotWritten

NextWrite == WTD_Call \/ WT_Call

SpecWrite == InitWrite /\ [][NextWrite]_vars

\* one read_table call
InitTable ==
    /\ builtins_import = "real"
    /\ ImportIdle
    /\ ReadIdle
    /\ OpenIdle
    /\ IdentIdle
    /\ WriteIdle
    /\ tcall \in TableCalls
    /\ tout = NotRead

NextTable == RT_Call

SpecTable == InitTable /\ [][NextTable]_vars

----------------------------------------------------------------------------
(* Properties of the wrapper *)

\* some compat-mode call has installed the redirecting import and not completed
CompatInProgress ==
    \E t \in Threads : \E i \in 1..Len(stack[t]) :
        stack[t][i].use_compat /\ stack[t][i].pc # "start"

\* a step of thread t that completes a wrapped call
Completes(t) == Len(stack'[t]) < Len(stack[t])

\* C2: whenever a wrapped call completes, by return or by exception, in compat
\* mode or not, nested or not, builtins.__import__ is the real import function
\* right after; and the redirecting import function is installed only while
\* a compat-mode call is in progress.
C2_RestoredAfterCall ==
    /\ [][(\E t \in Threads : Completes(t)) => builtins_import' = "real"]_vars
    /\ [](builtins_import = "compat" => CompatInProgress)

\* a nested call has completed by an exception, which its caller
\* (itself in compat mode) now holds, and the import function is the real one
C2_Witness ==
    \E t \in Threads :
        /\ Len(stack[t]) = 1
        /\ Top(stack[t]).pc = "raised"
        /\ Top(stack[t]).use_compat
        /\ last_writer = t
        /\ builtins_import = "real"

\* thread t runs one top-level wrapped call, which has called no other wrapped
\* function, and its body imported from the library of the other mode
Misdirected(t) ==
    /\ Len(stack[t]) = 1
    /\ ~Top(stack[t]).nested
    /\ Top(stack[t]).lib \notin {"none", LibFor(Top(stack[t]).use_compat)}

\* C3: the wrapper is unsafe under concurrent use.  Left to itself a top-level
\* call imports from the library of its mode; it imports from the other one
\* only after another thread has assigned builtins.__import__ (the witness
\* shows both interleavings).
C3_OnlyAnotherThreadMisdirects ==
    \A t \in Threads : Misdirected(t) => last_writer \in Threads \ {t}

\* t1's non-compat body imported glue.ligolw while t2's redirection was
\* installed, and t2's compat body imported ligo.lw after a cleanup run by t1
\* had reinstalled the real import function
C3_Witness ==
    /\ Len(stack["t1"]) = 1
    /\ ~Top(stack["t1"]).use_compat
    /\ Top(stack["t1"]).lib = "glue.ligolw"
    /\ Misdirected("t2")
    /\ Top(stack["t2"]).use_compat
    /\ Top(stack["t2"]).lib = "ligo.lw"
    /\ last_writer = "t1"

\* thread t is back in the body of a compat-mode call after a wrapped call
\* made from that body has completed, and no other thread has assigned
\* builtins.__import__ since
BackInCompatBody(t) ==
    /\ stack[t] # <<>>
    /\ Top(stack[t]).use_compat
    /\ Top(stack[t]).nested
    /\ Top(stack[t]).pc \in {"body", "raised"}
    /\ last_writer = t

\* a step in which the body of the top call of thread t runs an import
ImportsInBody(t) ==
    /\ Len(stack'[t]) = Len(stack[t])
    /\ Top(stack[t]).pc = "body"
    /\ Top(stack'[t]).pc = "body"
    /\ Top(stack'[t]).lib # Top(stack[t]).lib

\* C11: the wrapper is not reentrant.  Once a wrapped call made from the body
\* of a compat-mode call has completed, builtins.__import__ is the real
\* import function for the rest of that body (the outer call's redirection
\* is not installed again), so what the body imports from then on comes
\* from ligo.lw.
C11_RedirectionNotReinstated ==
    /\ [](\A t \in Threads : BackInCompatBody(t) => builtins_import = "real")
    /\ [][\A t \in Threads :
            (BackInCompatBody(t) /\ ImportsInBody(t))
            => Top(stack'[t]).lib = "ligo.lw"]_vars

\* alone, t1 made a compat-mode call from the body of a compat-mode call and,
\* back in the outer body, imported ligo.lw
C11_Witness ==
    /\ BackInCompatBody("t1")
    /\ Len(stack["t1"]) = 1
    /\ Top(stack["t1"]).pc = "body"
    /\ Top(stack["t1"]).lib = "ligo.lw"
    /\ builtins_import = "real"
    /\ stack["t2"] = <<>>

----------------------------------------------------------------------------
(* Properties of is_ligolw *)

\* character c is the signature character d, in either case
SameLetter(c, d) == c = d \/ (c \in DOMAIN LowerOf /\ LowerOf[c] = d)

\* the content holds the signature right after offset off, in any case
HasAt(content, off, sig) ==
    /\ Len(content) >= off + Len(sig.chars)
    /\ \A i \in 1..Len(sig.chars) : SameLetter(content[off + i], sig.chars[i])

\* the first line starts with <?xml and the second, the one after the first
\* newline, with <!doctype ligo_lw or <ligo_lw>
TwoLineSignature(content) ==
    /\ HasAt(content, 0, XML_SIGNATURE)
    /\ \E nl \in 1..Len(content) :
          /\ content[nl] = "\n"
          /\ \A j \in 1..(nl - 1) : content[j] # "\n"
          /\ \/ HasAt(content, nl, LIGOLW_SIGNATURE)
             \/ HasAt(content, nl, LIGOLW_ELEMENT)

\* C4: called with a file object, is_ligolw returns true exactly when the
\* first line of the file, read from offset 0 and in any case, starts with
\* <?xml and the second with <!doctype ligo_lw or <ligo_lw>, for binary and
\* text files, wherever the file stands; and the file stands after the call
\* where it stood before.
C4_SignatureAndPosition ==
    [][ident.fileobj =>
         /\ ident'.verdict = "True" <=> TwoLineSignature(ident.file.content)
         /\ ident'.file.pos = ident.file.pos
         /\ ident'.file.content = ident.file.content]_vars

\* a text file with an upper-case signature, standing past its start, was
\* identified
C4_Witness ==
    /\ ident.fileobj
    /\ ident.verdict = "True"
    /\ ident.file.mode = "r"
    /\ ident.file.pos > 0
    /\ ident.file.content[3] = "X"

----------------------------------------------------------------------------
(* Properties of write_tables and write_tables_to_document *)

\* C5: write_tables with append=False and overwrite=False on a path that
\* exists ends with the "File exists" error before any table is merged and
\* before any writer runs, and leaves the file and the document as they
\* were; with append=True or overwrite=True on that path the call does not
\* end with the "File exists" error.
C5_ExistingFileRefused ==
    [][(wcall.op = "write_tables" /\ wcall.target = "path" /\ disk.exists
          /\ ~wout.done)
        => IF ~wcall.append /\ ~wcall.overwrite
           THEN /\ wout'.err = "FileExists"
                /\ wout'.merges = 0
                /\ wout'.writes = 0
                /\ disk' = disk
                /\ xmldoc' = xmldoc
           ELSE wout'.err # "FileExists"]_vars

\* a call was refused for a file that holds tables, with tables to write
C5_Witness ==
    /\ wout.done
    /\ wout.err = "FileExists"
    /\ wcall.tables # <<>>
    /\ disk.exists
    /\ Locations(disk.doc) # {}

\* how often a list of tables names a table
TimesListed(tables, name) ==
    Cardinality({ i \in DOMAIN tables : tables[i].name = name })

\* C6: after write_tables_to_document has returned, the document holds
\* exactly one table of the name of every table written; if the document
\* held a table of that name before, that table now has the old rows
\* followed by the new rows (overwrite=False) or only the new rows
\* (overwrite=True).
C6_OneTablePerName ==
    (wcall.op = "write_tables_to_document" /\ wout.done /\ wout.err = "none")
    => \A k \in DOMAIN wcall.tables :
          LET name == wcall.tables[k].name
              held == getTablesByName(wcall.before, name)
              now  == getTablesByName(xmldoc, name)
          IN  /\ Cardinality(now) = 1
              /\ (held # {} /\ TimesListed(wcall.tables, name) = 1)
                 => \A loc \in now :
                      \E h \in held :
                         xmldoc[loc[1]][loc[2]].rows =
                            IF wcall.overwrite
                            THEN wcall.tables[k].rows
                            ELSE wcall.before[h[1]][h[2]].rows
                                    \o wcall.tables[k].rows

----------------------------------------------------------------------------
(* Properties of read_table *)

\* the call of read_table without a tablename has ended, the source was read
NoTablenameDone ==
    /\ tout.done
    /\ tcall.tablename = "none"
    /\ tout.result.err # "ReadError"

----------------------------------------------------------------------------
(* Properties of open_xmldoc *)

\* the library of the first load_fileobj: that of the top-level call given an
\* open file, that of the call it makes on the file it opened given a path
OpenFirstLib ==
    LET top == OpenFrame("real", ocall.fn, ocall.kw, ocall.ch, TRUE)
        inner == OpenFrame(WrappedInstall("real", top.use_compat), "file",
                           "absent", top.ch, TRUE)
    IN IF ocall.fn = "file" THEN top.lib ELSE inner.lib

\* the outcome of the first load
OpenFirstLoad == ocall.file.load[OpenFirstLib]

\* the ElementError the first load of a call on an open file raised
OpenFirstError == [cls |-> OpenFirstLoad.cls, msg |-> OpenFirstLoad.msg, at |-> 1]

\* C8: given a file path, open_xmldoc returns the document parsed from the
\* file or a new empty document, the empty one whenever the file cannot be
\* opened; it never raises OSError/IOError, and never returns an empty
\* document for a file that can be opened and that the loader parses.
C8_PathCall ==
    (ocall.fn = "path" /\ oresult.kind # "none") =>
        /\ ~(oresult.kind = "raise" /\ oresult.exc.cls = "OSError")
        /\ oresult.kind = "return" => oresult.val.kind \in {"parsed", "empty"}
        /\ ~ocall.file.openable =>
              oresult.kind = "return" /\ oresult.val.kind = "empty"
        /\ (ocall.file.openable /\ OpenFirstLoad.cls = "ok") =>
              oresult.kind = "return" /\ oresult.val.kind = "parsed"

\* the file opens and the loader raises OSError on it: the caller gets an
\* empty document and no OSError
C8_Witness ==
    /\ ocall.fn = "path"
    /\ ocall.file.openable
    /\ OpenFirstLoad.cls = "OSError"
    /\ oresult.kind = "return"
    /\ oresult.val.kind = "empty"

\* C10: given an open file, when load_fileobj raises an ElementError matching
\* a legacy-schema pattern the load is retried by reopening the file by name
\* with the compatibility flag; if the retry fails for any reason, the file
\* no longer being openable by its name included, the original ElementError
\* is raised; a non-matching ElementError is re-raised without a retry.
C10_FailedRetryRaisesOriginal ==
    (ocall.fn = "file" /\ OpenFirstLoad.cls = "LigolwElementError") =>
        IF LIGO_LW_COMPAT_ERROR(OpenFirstLoad.msg)
        THEN oresult.kind # "none" =>
                /\ ~ocall.file.openable =>
                      oresult.kind = "raise" /\ oresult.exc = OpenFirstError
                /\ oresult.kind = "raise" => oresult.exc = OpenFirstError
        ELSE /\ Len(ostack) <= 1
             /\ oresult.kind \in {"none", "raise"}
             /\ oresult.kind = "raise" => oresult.exc = OpenFirstError

----------------------------------------------------------------------------
(* Properties of read_ligolw *)

\* the outcome of the first load of the top-level call
FirstLoad == rcall.load[LibFor(UseCompat(rcall.kw, rcall.glueArg))]

\* the ElementError the first load raised, as the top-level call holds it
FirstError == [cls |-> FirstLoad.cls, msg |-> FirstLoad.msg, at |-> 1]

\* C1: an ElementError whose message matches a legacy-schema pattern is
\* retried exactly once, so the loader is invoked at most twice per top-level
\* call even when the retry raises a matching ElementError too; one whose
\* message matches no pattern is not retried and is re-raised.
C1_RetriedAtMostOnce ==
    /\ loads <= 2
    /\ (FirstLoad.cls = "LigolwElementError"
            /\ ~LIGO_LW_COMPAT_ERROR(FirstLoad.msg))
        => /\ loads <= 1
           /\ rresult.kind \in {"none", "raise"}
           /\ rresult.kind = "raise" => rresult.exc = FirstError

\* a retry (a read_ligolw call made by the except clause) completes
RetryCompletes == Len(rstack) >= 2 /\ Len(rstack') < Len(rstack)

\* C9: when the compatibility retry raises, whatever it raises, the call that
\* made it raises the ElementError it caught itself, not the retry's; when
\* the retry returns, its document is returned and nothing is raised; and
\* the top-level call hands its caller just that.
C9_RetryOutcome ==
    /\ [][RetryCompletes =>
            LET child == Top(rstack)
                parent == Top(Pop(rstack))
                after == Top(rstack')
            IN IF child.pc = "raise"
               THEN /\ after.pc = "raise"
                    /\ after.exc = parent.exc
                    /\ after.exc.at = Len(rstack')
                    /\ after.exc.cls = "LigolwElementError"
               ELSE /\ after.pc = "return"
                    /\ after.val = child.val]_vars
    /\ [][(Len(rstack) = 1 /\ rstack' = <<>>) =>
            IF Top(rstack).pc = "raise"
            THEN rresult'.kind = "raise" /\ rresult'.exc = Top(rstack).exc
            ELSE rresult'.kind = "return" /\ rresult'.val = Top(rstack).val]_vars
    /\ [](rresult.kind = "raise" /\ loads >= 2 => rresult.exc = FirstError)

\* the retry raised an exception of another class than the first load's, and
\* the caller got the first ElementError
C9_Witness ==
    /\ rresult.kind = "raise"
    /\ loads = 2
    /\ rcall.load["glue.ligolw"].cls = "Exception"
    /\ rresult.exc = FirstError
    /\ rresult.exc.cls = "LigolwElementError"

====
